---- MODULE Spec2Model ----
(***************************************************************************)
(* The leveled logging facility of telebotx (logger.go): the LogLevel      *)
(* order, the three built-in Logger implementations (NoOpLogger,           *)
(* DefaultLogger, StdLogger), the NewLogger factory, and the callers that  *)
(* share the Logger the factory returned.                                  *)
(***************************************************************************)
EXTENDS Integers, Sequences, FiniteSets, TLC

\* ------------------------------------------------------------- bounds
\* Calls the single caller of Spec makes on the logger.
SeqCalls == 3
\* Concurrent callers of the shared logger (SpecConc), and the messages each
\* of them emits.
NumCallers == 2
MaxCalls == 2

\* ----------------------------------------------------------- LogLevel
LogLevelDebug == 0
LogLevelInfo == 1
LogLevelWarn == 2
LogLevelError == 3
LogLevelFatal == 4
LogLevelOff == 5

Levels == LogLevelDebug .. LogLevelOff

\* LogLevel.String()
String(l) ==
  CASE l = LogLevelDebug -> "DEBUG"
    [] l = LogLevelInfo -> "INFO"
    [] l = LogLevelWarn -> "WARN"
    [] l = LogLevelError -> "ERROR"
    [] l = LogLevelFatal -> "FATAL"
    [] l = LogLevelOff -> "OFF"
    [] OTHER -> "UNKNOWN"

\* The nil interface value / nil pointer.
Nil == "nil"
\* What a method with no result returns.
NoRet == "void"

Methods == {"Debug", "Info", "Warn", "Error", "Fatal", "LogMode"}
EmitMethods == Methods \ {"LogMode"}

\* The severity an emit method logs at.
Severity(m) ==
  CASE m = "Debug" -> LogLevelDebug
    [] m = "Info" -> LogLevelInfo
    [] m = "Warn" -> LogLevelWarn
    [] m = "Error" -> LogLevelError
    [] m = "Fatal" -> LogLevelFatal

\* ------------------------------------------------------------ objects
\* A Logger object on the heap.  kind is its dynamic type; a NoOpLogger and a
\* CustomTestLogger carry no enabled flag or level (shown here as the zero
\* values).  logger is the *log.Logger it writes through, or Nil.
LoggerObj(kind, logger, enabled, level) ==
  [kind |-> kind, logger |-> logger, enabled |-> enabled, level |-> level]

\* A *log.Logger: the writer it serialises access to, and its prefix.
LogNew(out, prefix) == [out |-> out, prefix |-> prefix]

\* log.Default(): the package-level standard logger, writing to stderr.
LogDefault == "std"

NewNoOpLogger == LoggerObj("NoOp", Nil, FALSE, LogLevelDebug)

BrokenNewDefaultLogger(level, prefix) ==
  LoggerObj("Default", "new", TRUE, LogLevelDebug)

NewDefaultLogger(level, prefix) == LoggerObj("Default", "new", TRUE, level)

BrokenNewStdLogger(logger, enabled) == LoggerObj("Std", logger, enabled, LogLevelDebug)

NewStdLogger(logger, enabled) ==
  LoggerObj("Std", IF logger = Nil THEN LogDefault ELSE logger, enabled, LogLevelDebug)

\* The loggers of the test file: CustomTestLogger (its own five emit methods,
\* no filter, Fatal does not exit) and LevelTestLogger (a DefaultLogger built
\* as a struct literal over a buffer).
NewCustomTestLogger == LoggerObj("Custom", "user", TRUE, LogLevelDebug)

NewLevelTestLogger(level) == LoggerObj("Default", "user", TRUE, level)

\* The zero values &DefaultLogger{} and &StdLogger{}.
ZeroDefaultLogger == LoggerObj("Default", Nil, FALSE, LogLevelDebug)

ZeroStdLogger == LoggerObj("Std", Nil, FALSE, LogLevelDebug)

Prefixes == {"", "bot "}

\* The external loggers a host may put in LogConfig.Logger.
ExternalLoggers ==
  {NewCustomTestLogger, NewNoOpLogger, ZeroDefaultLogger, ZeroStdLogger}
    \cup {NewLevelTestLogger(l) : l \in Levels}
    \cup {NewStdLogger(lg, e) : lg \in {Nil, "user"}, e \in BOOLEAN}

\* Object ids: the external logger (when there is one) and the one NewLogger
\* allocates.
ExtId == "ext"
NewId == "made"

VARIABLES
  config,    \* the LogConfig handed to NewLogger
  heap,      \* object id -> Logger object
  logs,      \* *log.Logger id -> [out, prefix]
  mu,        \* *log.Logger id -> the caller holding its mutex, 0 when free
  out,       \* writer -> the lines written to it
  logger,    \* the Logger NewLogger returned (an object id), Nil before
  callers,   \* the callers that share logger
  workload,  \* the methods the callers invoke, and how many calls each makes
  pc,        \* caller -> its position
  cur,       \* caller -> the Printf it is in
  hist,      \* caller -> the calls it made, with their outcomes
  exited,    \* the process has ended
  exitCode   \* its exit status

vars == <<config, heap, logs, mu, out, logger, callers, workload, pc, cur, hist, exited, exitCode>>

Writers == {"stdout", "stderr", "buffer"}

LogIds == {"new", "std", "user"}

NoCur == [log |-> Nil, tag |-> "", msg |-> <<>>, pos |-> 0, exit |-> FALSE]

\* ---------------------------------------------------------- NewLogger
BrokenNewLogger(c) ==
  IF c.Logger # Nil THEN [ret |-> c.Logger, alloc |-> {}]
  ELSE IF ~c.Enable THEN [ret |-> NewId, alloc |-> {NewNoOpLogger}]
  ELSE [ret |-> NewId, alloc |-> {NewDefaultLogger(c.Level, c.Prefix)}]

NewLoggerIgnoresCustom(c) ==
  IF ~c.Enable THEN [ret |-> NewId, alloc |-> {NewNoOpLogger}]
  ELSE [ret |-> NewId, alloc |-> {NewDefaultLogger(c.Level, c.Prefix)}]

\* NewLogger(config): the object it returns and the object it allocates.
NewLogger(c) ==
  IF ~c.Enable THEN [ret |-> NewId, alloc |-> {NewNoOpLogger}]
  ELSE IF c.Logger # Nil THEN [ret |-> c.Logger, alloc |-> {}]
  ELSE [ret |-> NewId, alloc |-> {NewDefaultLogger(c.Level, c.Prefix)}]

\* log.New(os.Stdout, prefix, ...) inside NewDefaultLogger.
NewDefaultLoggerLog(prefix) == LogNew("stdout", prefix)

NewLoggerStep ==
  /\ logger = Nil
  /\ ~exited
  /\ LET r == NewLogger(config) IN
       /\ logger' = r.ret
       /\ heap' = IF r.alloc = {} THEN heap
                  ELSE (NewId :> (CHOOSE o \in r.alloc : TRUE)) @@ heap
       /\ logs' = IF \E o \in r.alloc : o.logger = "new"
                  THEN ("new" :> NewDefaultLoggerLog(config.Prefix)) @@ logs
                  ELSE logs
  /\ UNCHANGED <<config, mu, out, callers, workload, pc, cur, hist, exited, exitCode>>

\* ---------------------------------------------------------- the calls
\* Caller g may invoke method m on the shared logger.
CanCall(g, m) ==
  /\ logger # Nil
  /\ ~exited
  /\ pc[g] = "idle"
  /\ Len(hist[g]) < workload.calls
  /\ m \in workload.methods

\* The dynamic type of the shared logger.
Dispatch(kind) == heap[logger].kind = kind

\* The message of g's next call: every call carries a distinct one.
Msg(g) == <<g, Len(hist[g]) + 1>>

Entry(m, msg, outcome, ret) ==
  [method |-> m, msg |-> msg, wrote |-> FALSE, outcome |-> outcome, ret |-> ret]

\* The call returns at once, having written nothing.
Return(g, m, ret) ==
  /\ hist' = [hist EXCEPT ![g] = Append(@, Entry(m, Msg(g), "returned", ret))]
  /\ UNCHANGED <<config, heap, logs, mu, out, logger, callers, workload, pc, cur,
                 exited, exitCode>>

\* The call enters l.logger.Printf(tag + msg); thenExit: os.Exit(1) follows.
Printf(g, m, l, tag, thenExit) ==
  /\ hist' = [hist EXCEPT ![g] = Append(@, Entry(m, Msg(g), "running", NoRet))]
  /\ cur' = [cur EXCEPT ![g] =
               [log |-> l.logger, tag |-> tag, msg |-> Msg(g), pos |-> 0,
                exit |-> thenExit]]
  /\ pc' = [pc EXCEPT ![g] = "lock"]
  /\ UNCHANGED <<config, heap, logs, mu, out, logger, callers, workload, exited,
                 exitCode>>

\* ------------------------------------------------------ DefaultLogger
BrokenDefaultSkips(l, sev) == ~l.enabled \/ l.level >= sev

\* The early return of every DefaultLogger emit method.
DefaultSkips(l, sev) == ~l.enabled \/ l.level > sev

DefaultLogger_Debug(g) ==
  /\ CanCall(g, "Debug") /\ Dispatch("Default")
  /\ IF DefaultSkips(heap[logger], LogLevelDebug)
     THEN Return(g, "Debug", NoRet)
     ELSE Printf(g, "Debug", heap[logger], "[DEBUG] ", FALSE)

DefaultLogger_Info(g) ==
  /\ CanCall(g, "Info") /\ Dispatch("Default")
  /\ IF DefaultSkips(heap[logger], LogLevelInfo)
     THEN Return(g, "Info", NoRet)
     ELSE Printf(g, "Info", heap[logger], "[INFO] ", FALSE)

DefaultLogger_Warn(g) ==
  /\ CanCall(g, "Warn") /\ Dispatch("Default")
  /\ IF DefaultSkips(heap[logger], LogLevelWarn)
     THEN Return(g, "Warn", NoRet)
     ELSE Printf(g, "Warn", heap[logger], "[WARN] ", FALSE)

DefaultLogger_Error(g) ==
  /\ CanCall(g, "Error") /\ Dispatch("Default")
  /\ IF DefaultSkips(heap[logger], LogLevelError)
     THEN Return(g, "Error", NoRet)
     ELSE Printf(g, "Error", heap[logger], "[ERROR] ", FALSE)

BrokenDefaultLogger_Fatal(g) ==
  /\ CanCall(g, "Fatal") /\ Dispatch("Default")
  /\ IF ~heap[logger].enabled
     THEN Return(g, "Fatal", NoRet)
     ELSE Printf(g, "Fatal", heap[logger], "[FATAL] ", TRUE)

DefaultLogger_Fatal(g) ==
  /\ CanCall(g, "Fatal") /\ Dispatch("Default")
  /\ IF DefaultSkips(heap[logger], LogLevelFatal)
     THEN Return(g, "Fatal", NoRet)
     ELSE Printf(g, "Fatal", heap[logger], "[FATAL] ", TRUE)

BrokenDefaultLogMode(l) == l.level

DefaultLogMode(l) == IF ~l.enabled THEN LogLevelOff ELSE l.level

DefaultLogger_LogMode(g) ==
  /\ CanCall(g, "LogMode") /\ Dispatch("Default")
  /\ Return(g, "LogMode", DefaultLogMode(heap[logger]))

\* --------------------------------------------------------- NoOpLogger
NoOpLogger_Debug(g) ==
  CanCall(g, "Debug") /\ Dispatch("NoOp") /\ Return(g, "Debug", NoRet)

NoOpLogger_Info(g) ==
  CanCall(g, "Info") /\ Dispatch("NoOp") /\ Return(g, "Info", NoRet)

NoOpLogger_Warn(g) ==
  CanCall(g, "Warn") /\ Dispatch("NoOp") /\ Return(g, "Warn", NoRet)

NoOpLogger_Error(g) ==
  CanCall(g, "Error") /\ Dispatch("NoOp") /\ Return(g, "Error", NoRet)

NoOpLogger_Fatal(g) ==
  CanCall(g, "Fatal") /\ Dispatch("NoOp") /\ Return(g, "Fatal", NoRet)

NoOpLogMode == LogLevelOff

NoOpLogger_LogMode(g) ==
  CanCall(g, "LogMode") /\ Dispatch("NoOp") /\ Return(g, "LogMode", NoOpLogMode)

\* ---------------------------------------------------------- StdLogger
BrokenStdSkips(l) == FALSE

\* The early return of every StdLogger emit method.
StdSkips(l) == ~l.enabled

StdLogger_Debug(g) ==
  /\ CanCall(g, "Debug") /\ Dispatch("Std")
  /\ IF StdSkips(heap[logger])
     THEN Return(g, "Debug", NoRet)
     ELSE Printf(g, "Debug", heap[logger], "[DEBUG] ", FALSE)

StdLogger_Info(g) ==
  /\ CanCall(g, "Info") /\ Dispatch("Std")
  /\ IF StdSkips(heap[logger])
     THEN Return(g, "Info", NoRet)
     ELSE Printf(g, "Info", heap[logger], "[INFO] ", FALSE)

StdLogger_Warn(g) ==
  /\ CanCall(g, "Warn") /\ Dispatch("Std")
  /\ IF StdSkips(heap[logger])
     THEN Return(g, "Warn", NoRet)
     ELSE Printf(g, "Warn", heap[logger], "[WARN] ", FALSE)

StdLogger_Error(g) ==
  /\ CanCall(g, "Error") /\ Dispatch("Std")
  /\ IF StdSkips(heap[logger])
     THEN Return(g, "Error", NoRet)
     ELSE Printf(g, "Error", heap[logger], "[ERROR] ", FALSE)

BrokenStdLogger_Fatal(g) ==
  /\ CanCall(g, "Fatal") /\ Dispatch("Std")
  /\ IF StdSkips(heap[logger])
     THEN Return(g, "Fatal", NoRet)
     ELSE Printf(g, "Fatal", heap[logger], "[FATAL] ", FALSE)

\* l.logger.Fatalf: the write, then os.Exit(1).
StdLogger_Fatal(g) ==
  /\ CanCall(g, "Fatal") /\ Dispatch("Std")
  /\ IF StdSkips(heap[logger])
     THEN Return(g, "Fatal", NoRet)
     ELSE Printf(g, "Fatal", heap[logger], "[FATAL] ", TRUE)

StdLogMode(l) == IF ~l.enabled THEN LogLevelOff ELSE LogLevelDebug

StdLogger_LogMode(g) ==
  /\ CanCall(g, "LogMode") /\ Dispatch("Std")
  /\ Return(g, "LogMode", StdLogMode(heap[logger]))

\* --------------------------------------------------- CustomTestLogger
CustomTag(m) ==
  CASE m = "Debug" -> "[DEBUG] "
    [] m = "Info" -> "[INFO] "
    [] m = "Warn" -> "[WARN] "
    [] m = "Error" -> "[ERROR] "
    [] m = "Fatal" -> "[FATAL] "

\* Its five emit methods: Printf, unfiltered, and no exit after Fatal.
CustomTestLogger_Emit(g) ==
  \E m \in EmitMethods :
    /\ CanCall(g, m) /\ Dispatch("Custom")
    /\ Printf(g, m, heap[logger], CustomTag(m), FALSE)

CustomTestLogger_LogMode(g) ==
  CanCall(g, "LogMode") /\ Dispatch("Custom") /\ Return(g, "LogMode", LogLevelDebug)

\* ------------------------------------------- log.Logger.Printf, os.Exit
\* The last call of g's history, updated.
SetLast(h, field, v) == [h EXCEPT ![Len(h)] = [@ EXCEPT ![field] = v]]

RacyAcquire(g, log) == TRUE

\* l.outMu.Lock(): log.Logger serialises access to its writer.
Acquire(g, log) == mu[log] = 0

\* Printf on a nil *log.Logger dereferences nil: the goroutine panics and the
\* runtime ends the process with status 2.  Otherwise the caller waits for
\* the logger's mutex.
PrintfLock(g) ==
  /\ pc[g] = "lock"
  /\ ~exited
  /\ IF cur[g].log \notin DOMAIN logs
     THEN /\ pc' = [pc EXCEPT ![g] = "panicked"]
          /\ hist' = [hist EXCEPT ![g] = SetLast(@, "outcome", "panicked")]
          /\ exited' = TRUE
          /\ exitCode' = 2
          /\ UNCHANGED <<mu>>
     ELSE /\ Acquire(g, cur[g].log)
          /\ mu' = [mu EXCEPT ![cur[g].log] = g]
          /\ pc' = [pc EXCEPT ![g] = "grow"]
          /\ UNCHANGED <<hist, exited, exitCode>>
  /\ UNCHANGED <<config, heap, logs, out, logger, callers, workload, cur>>

\* The line Printf renders: the logger's prefix, the bracketed tag, the message.
Line(log, tag, msg) == [prefix |-> logs[log].prefix, tag |-> tag, msg |-> msg]

\* l.out.Write(buf), first half: the writer finds where the data goes.
WriteGrow(g) ==
  /\ pc[g] = "grow"
  /\ ~exited
  /\ cur' = [cur EXCEPT ![g].pos = Len(out[logs[cur[g].log].out])]
  /\ pc' = [pc EXCEPT ![g] = "copy"]
  /\ UNCHANGED <<config, heap, logs, mu, out, logger, callers, workload, hist,
                 exited, exitCode>>

\* The writer's content with `line` stored after the first pos lines.
Store(w, pos, line) ==
  IF pos >= Len(w) THEN Append(w, line) ELSE [w EXCEPT ![pos + 1] = line]

\* l.out.Write(buf), second half: the data is copied in.
WriteCopy(g) ==
  /\ pc[g] = "copy"
  /\ ~exited
  /\ LET c == cur[g] IN
       out' = [out EXCEPT ![logs[c.log].out] =
                 Store(@, c.pos, Line(c.log, c.tag, c.msg))]
  /\ hist' = [hist EXCEPT ![g] = SetLast(@, "wrote", TRUE)]
  /\ pc' = [pc EXCEPT ![g] = "unlock"]
  /\ UNCHANGED <<config, heap, logs, mu, logger, callers, workload, cur, exited,
                 exitCode>>

\* l.outMu.Unlock(); Printf returns, and so does the emit method unless
\* os.Exit(1) follows.
PrintfUnlock(g) ==
  /\ pc[g] = "unlock"
  /\ ~exited
  /\ mu' = [mu EXCEPT ![cur[g].log] = 0]
  /\ IF cur[g].exit
     THEN /\ pc' = [pc EXCEPT ![g] = "exit"]
          /\ UNCHANGED <<hist, cur>>
     ELSE /\ pc' = [pc EXCEPT ![g] = "idle"]
          /\ hist' = [hist EXCEPT ![g] = SetLast(@, "outcome", "returned")]
          /\ cur' = [cur EXCEPT ![g] = NoCur]
  /\ UNCHANGED <<config, heap, logs, out, logger, callers, workload, exited,
                 exitCode>>

\* os.Exit(1): the process ends, whatever the other callers are doing.
OsExit(g) ==
  /\ pc[g] = "exit"
  /\ ~exited
  /\ exited' = TRUE
  /\ exitCode' = 1
  /\ hist' = [hist EXCEPT ![g] = SetLast(@, "outcome", "exited")]
  /\ UNCHANGED <<config, heap, logs, mu, out, logger, callers, workload, pc, cur>>

\* ------------------------------------------------------ specifications
Configs ==
  [Enable : BOOLEAN, Level : Levels, Prefix : Prefixes, Logger : {Nil, ExtId}]

\* The *log.Logger a host builds over its own buffer for an external logger:
\* log.New(buffer, "[CUSTOM] ", 0) in NewCustomTestLogger, log.New(buffer,
\* "[LEVEL] ", 0) in NewLevelTestLogger, an unprefixed one for NewStdLogger.
UserLog(ext) ==
  LogNew("buffer",
         IF ext.kind = "Custom" THEN "[CUSTOM] "
         ELSE IF ext.kind = "Default" THEN "[LEVEL] " ELSE "")

\* The state before NewLogger: the config, the external logger it may name
\* (with the *log.Logger that one writes through), the standard logger.
Start(c, ext, who, work) ==
  /\ config = c
  /\ heap = IF c.Logger = Nil THEN <<>> ELSE (ExtId :> ext)
  /\ logs = IF c.Logger # Nil /\ ext.logger = "user"
            THEN ("user" :> UserLog(ext)) @@ (LogDefault :> LogNew("stderr", ""))
            ELSE (LogDefault :> LogNew("stderr", ""))
  /\ mu = [l \in LogIds |-> 0]
  /\ out = [w \in Writers |-> <<>>]
  /\ logger = Nil
  /\ callers = who
  /\ workload = work
  /\ pc = [g \in who |-> "idle"]
  /\ cur = [g \in who |-> NoCur]
  /\ hist = [g \in who |-> <<>>]
  /\ exited = FALSE
  /\ exitCode = 0

\* One caller, any config, any external logger, every method.
Init ==
  \E c \in Configs, ext \in ExternalLoggers : Start(c, ext, {1}, [methods |-> Methods, calls |-> SeqCalls])

Next ==
  \/ NewLoggerStep
  \/ \E g \in callers : DefaultLogger_Debug(g)
  \/ \E g \in callers : DefaultLogger_Info(g)
  \/ \E g \in callers : DefaultLogger_Warn(g)
  \/ \E g \in callers : DefaultLogger_Error(g)
  \/ \E g \in callers : DefaultLogger_Fatal(g)
  \/ \E g \in callers : DefaultLogger_LogMode(g)
  \/ \E g \in callers : NoOpLogger_Debug(g)
  \/ \E g \in callers : NoOpLogger_Info(g)
  \/ \E g \in callers : NoOpLogger_Warn(g)
  \/ \E g \in callers : NoOpLogger_Error(g)
  \/ \E g \in callers : NoOpLogger_Fatal(g)
  \/ \E g \in callers : NoOpLogger_LogMode(g)
  \/ \E g \in callers : StdLogger_Debug(g)
  \/ \E g \in callers : StdLogger_Info(g)
  \/ \E g \in callers : StdLogger_Warn(g)
  \/ \E g \in callers : StdLogger_Error(g)
  \/ \E g \in callers : StdLogger_Fatal(g)
  \/ \E g \in callers : StdLogger_LogMode(g)
  \/ \E g \in callers : CustomTestLogger_Emit(g)
  \/ \E g \in callers : CustomTestLogger_LogMode(g)
  \/ \E g \in callers : PrintfLock(g)
  \/ \E g \in callers : WriteGrow(g)
  \/ \E g \in callers : WriteCopy(g)
  \/ \E g \in callers : PrintfUnlock(g)
  \/ \E g \in callers : OsExit(g)

Spec == Init /\ [][Next]_vars

\* NumCallers callers share an enabled DefaultLogger or StdLogger and emit
\* at one severity below Fatal.
InitConc ==
  \E c \in Configs, ext \in {NewStdLogger(lg, TRUE) : lg \in {Nil, "user"}},
     m \in EmitMethods \ {"Fatal"} :
    /\ c.Enable
    /\ c.Prefix = ""
    /\ c.Logger # Nil => c.Level = LogLevelDebug
    /\ Start(c, ext, 1 .. NumCallers, [methods |-> {m}, calls |-> MaxCalls])

NextConc ==
  \/ NewLoggerStep
  \/ \E g \in callers : DefaultLogger_Debug(g)
  \/ \E g \in callers : DefaultLogger_Info(g)
  \/ \E g \in callers : DefaultLogger_Warn(g)
  \/ \E g \in callers : DefaultLogger_Error(g)
  \/ \E g \in callers : StdLogger_Debug(g)
  \/ \E g \in callers : StdLogger_Info(g)
  \/ \E g \in callers : StdLogger_Warn(g)
  \/ \E g \in callers : StdLogger_Error(g)
  \/ \E g \in callers : PrintfLock(g)
  \/ \E g \in callers : WriteGrow(g)
  \/ \E g \in callers : WriteCopy(g)
  \/ \E g \in callers : PrintfUnlock(g)

SpecConc == InitConc /\ [][NextConc]_vars

\* ---------------------------------------------------------- the claims
\* The logger the factory returned.
R == heap[logger]

\* Every call of every caller, as <<caller, index>>.
CallIds == {<<g, i>> \in callers \X (1 .. workload.calls) : i <= Len(hist[g])}
Call(id) == hist[id[1]][id[2]]
IsEmit(e) == e.method \in EmitMethods
Finished(e) == e.outcome # "running"
Quiet == \A id \in CallIds : Finished(Call(id))

\* The line the spec requires of an emit: the bracketed tag of the severity
\* and the message (after the logger's prefix).
ClaimLine(prefix, e) ==
  [prefix |-> prefix, tag |-> "[" \o String(Severity(e.method)) \o "] ", msg |-> e.msg]

\* The writer the returned logger writes to (none for a logger without one).
LoggerWriters == IF R.logger \in DOMAIN logs THEN {logs[R.logger].out} ELSE {}
LoggerPrefix == logs[R.logger].prefix

\* What the single caller's emits must have left in the writer when exactly
\* the calls satisfying Passes wrote: one line per such call, in call order.
ExpectedOut(Passes(_)) ==
  LET sel == SelectSeq(hist[1], LAMBDA e : IsEmit(e) /\ Passes(e))
  IN [i \in 1 .. Len(sel) |-> ClaimLine(LoggerPrefix, sel[i])]

NothingWritten == \A w \in Writers : out[w] = <<>>

\* C1: with Enable=false NewLogger returns a NoOpLogger that is not the
\* supplied external logger, whatever Level, Prefix and Logger are; its
\* LogMode() is Off and no call on it writes to any writer, the external
\* logger's included.
C1_DisabledIsNoOp ==
  (logger # Nil /\ ~config.Enable) =>
    /\ R.kind = "NoOp"
    /\ logger # config.Logger
    /\ \A id \in CallIds :
         /\ Call(id).outcome = "returned"
         /\ ~Call(id).wrote
         /\ Call(id).method = "LogMode" => Call(id).ret = LogLevelOff
    /\ NothingWritten
    /\ ~exited

C1_Witness ==
  /\ logger # Nil /\ ~config.Enable /\ config.Logger = ExtId
  /\ heap[ExtId].kind = "Custom"
  /\ config.Level = LogLevelDebug
  /\ Len(hist[1]) = 3
  /\ hist[1][1].method = "Error" /\ hist[1][2].method = "Fatal"
  /\ hist[1][3].method = "LogMode" /\ hist[1][3].ret = LogLevelOff

\* C2: with Enable=true and an external Logger NewLogger returns that very
\* object, whatever Level and Prefix are: nothing is allocated, no
\* DefaultLogger and no log.Logger is constructed, and the calls on the result
\* are answered by the supplied logger (nothing reaches stdout, the writer of
\* a factory-made DefaultLogger).
C2_CustomIsReturned ==
  (logger # Nil /\ config.Enable /\ config.Logger # Nil) =>
    /\ logger = config.Logger
    /\ DOMAIN heap = {ExtId}
    /\ "new" \notin DOMAIN logs
    /\ out["stdout"] = <<>>
    /\ \A w \in Writers \ LoggerWriters : out[w] = <<>>

C2_Witness ==
  /\ logger = ExtId /\ config.Enable /\ config.Level = LogLevelOff
  /\ config.Prefix = "bot "
  /\ heap[ExtId].kind = "Custom"
  /\ Len(hist[1]) = 2
  /\ hist[1][1].method = "Info" /\ hist[1][1].wrote
  /\ hist[1][2].method = "LogMode" /\ hist[1][2].ret = LogLevelDebug
  /\ out["buffer"] = <<[prefix |-> "[CUSTOM] ", tag |-> "[INFO] ", msg |-> <<1, 1>>]>>

\* C3: with Enable=true and no external Logger NewLogger returns an enabled
\* DefaultLogger whose LogMode() is the config's Level, for every Level from
\* Debug to Off (Level=Off gives a DefaultLogger reporting Off, not a
\* NoOpLogger).
C3_DefaultHasConfigLevel ==
  (logger # Nil /\ config.Enable /\ config.Logger = Nil) =>
    /\ R.kind = "Default"
    /\ R.enabled
    /\ DefaultLogMode(R) = config.Level
    /\ \A id \in CallIds :
         Call(id).method = "LogMode" => Call(id).ret = config.Level

C3_Witness ==
  /\ logger # Nil /\ config.Enable /\ config.Logger = Nil
  /\ config.Level = LogLevelOff
  /\ R.kind = "Default"
  /\ Len(hist[1]) = 1
  /\ hist[1][1].method = "LogMode" /\ hist[1][1].ret = LogLevelOff

\* The filter of the spec: the logger is enabled and the severity is at or
\* above its level.
PassesFilter(e) == R.enabled /\ Severity(e.method) >= R.level

\* C4: on a DefaultLogger with level L an emit at severity S appends exactly
\* one line, carrying the tag of S and the message, iff the logger is enabled
\* and S >= L; otherwise the writer is left as it was.
C4_DefaultFilter ==
  (logger # Nil /\ R.kind = "Default" /\ Quiet) =>
    /\ \A id \in CallIds :
         IsEmit(Call(id)) => (Call(id).wrote <=> PassesFilter(Call(id)))
    /\ \A w \in LoggerWriters : out[w] = ExpectedOut(PassesFilter)
    /\ \A w \in Writers \ LoggerWriters : out[w] = <<>>

C4_Witness ==
  /\ logger # Nil /\ R.kind = "Default" /\ R.enabled /\ R.level = LogLevelWarn
  /\ Quiet /\ Len(hist[1]) = 3
  /\ hist[1][1].method = "Info" /\ ~hist[1][1].wrote
  /\ hist[1][2].method = "Warn" /\ hist[1][2].wrote
  /\ hist[1][3].method = "Error" /\ hist[1][3].wrote
  /\ Len(out["stdout"]) = 2

\* Every caller has made all its calls and each has returned.
AllDone ==
  \A g \in callers : Len(hist[g]) = workload.calls /\ pc[g] = "idle"

\* Every call is an emit that passes the logger's gate: the filter of a
\* DefaultLogger, the enabled flag of a StdLogger.
AllPass ==
  \A id \in CallIds :
    /\ IsEmit(Call(id))
    /\ R.enabled
    /\ R.kind = "Default" => Severity(Call(id).method) >= R.level

\* C5: when NumCallers callers each emit MaxCalls distinct messages through
\* one shared DefaultLogger or StdLogger, all passing, then once every call
\* has returned the writer holds exactly NumCallers * MaxCalls lines, each the
\* complete line of exactly one call: none lost, duplicated or mixed.
C5_ConcurrentLinesIntact ==
  (logger # Nil /\ R.kind \in {"Default", "Std"} /\ AllDone /\ AllPass) =>
    \A w \in LoggerWriters :
      /\ Len(out[w]) = NumCallers * MaxCalls
      /\ \A id \in CallIds :
           Cardinality({i \in 1 .. Len(out[w]) :
                          out[w][i] = ClaimLine(LoggerPrefix, Call(id))}) = 1
      /\ \A i \in 1 .. Len(out[w]) :
           \E id \in CallIds : out[w][i] = ClaimLine(LoggerPrefix, Call(id))

C5_Witness ==
  /\ logger # Nil /\ R.kind = "Default" /\ R.level = LogLevelInfo
  /\ AllDone /\ AllPass
  /\ Len(out["stdout"]) = NumCallers * MaxCalls
  /\ out["stdout"][1] = [prefix |-> "", tag |-> "[WARN] ", msg |-> <<2, 1>>]
  /\ out["stdout"][2] = [prefix |-> "", tag |-> "[WARN] ", msg |-> <<1, 1>>]
  /\ out["stdout"][3] = [prefix |-> "", tag |-> "[WARN] ", msg |-> <<1, 2>>]

\* The last line of the logger's writer is the line of call e.
LastLineIs(e) ==
  \A w \in LoggerWriters :
    /\ out[w] # <<>>
    /\ out[w][Len(out[w])] = ClaimLine(LoggerPrefix, e)

\* C6: DefaultLogger.Fatal ends the process, with a non-zero status, iff the
\* logger is enabled and its level is <= Fatal, and then the [FATAL] line is
\* in the writer before the process ends; a disabled logger or level Off makes
\* Fatal write nothing, not end the process, and return.
C6_DefaultFatal ==
  (logger # Nil /\ R.kind = "Default") =>
    /\ \A id \in CallIds :
         LET e == Call(id) IN
           e.method = "Fatal" =>
             IF R.enabled /\ R.level <= LogLevelFatal
             THEN /\ e.outcome \in {"running", "exited"}
                  /\ (e.outcome = "exited" \/ pc[id[1]] = "exit") =>
                       e.wrote /\ LastLineIs(e)
                  /\ e.outcome = "exited" => exited /\ exitCode # 0
             ELSE e.outcome = "returned" /\ ~e.wrote /\ ~exited
    /\ exited =>
         \E id \in CallIds : Call(id).method = "Fatal" /\ Call(id).outcome = "exited"

C6_Witness ==
  /\ logger # Nil /\ R.kind = "Default" /\ R.level = LogLevelFatal
  /\ exited /\ exitCode = 1
  /\ Len(hist[1]) = 2
  /\ hist[1][1].method = "Error" /\ hist[1][1].outcome = "returned" /\ ~hist[1][1].wrote
  /\ hist[1][2].method = "Fatal" /\ hist[1][2].outcome = "exited"
  /\ out["stdout"] = <<[prefix |-> config.Prefix, tag |-> "[FATAL] ", msg |-> <<1, 2>>]>>

\* The gate of the spec for a StdLogger: its enabled flag alone.
PassesEnabled(e) == R.enabled

\* C7: every emit of a StdLogger is gated by its enabled flag alone: enabled,
\* a call at any severity from Debug to Fatal writes exactly one line with
\* that severity's tag and the message; disabled, no call writes anything.
C7_StdGatedByEnabled ==
  (logger # Nil /\ R.kind = "Std" /\ Quiet) =>
    /\ \A id \in CallIds :
         IsEmit(Call(id)) => (Call(id).wrote <=> R.enabled)
    /\ \A w \in LoggerWriters : out[w] = ExpectedOut(PassesEnabled)
    /\ \A w \in Writers \ LoggerWriters : out[w] = <<>>

C7_Witness ==
  /\ logger # Nil /\ R.kind = "Std" /\ R.enabled /\ R.logger = LogDefault
  /\ config.Level = LogLevelOff
  /\ Quiet /\ Len(hist[1]) = 3
  /\ hist[1][1].method = "Debug" /\ hist[1][2].method = "Info"
  /\ hist[1][3].method = "Error"
  /\ Len(out["stderr"]) = 3

\* C8: StdLogger.Fatal on an enabled logger writes the [FATAL] line and then
\* ends the process, the write first and no level consulted; on a disabled
\* logger it neither writes nor ends the process.
C8_StdFatal ==
  (logger # Nil /\ R.kind = "Std") =>
    /\ \A id \in CallIds :
         LET e == Call(id) IN
           e.method = "Fatal" =>
             IF R.enabled
             THEN /\ e.outcome \in {"running", "exited"}
                  /\ (e.outcome = "exited" \/ pc[id[1]] = "exit") =>
                       e.wrote /\ LastLineIs(e)
                  /\ e.outcome = "exited" => exited /\ exitCode # 0
             ELSE e.outcome = "returned" /\ ~e.wrote /\ ~exited
    /\ exited =>
         \E id \in CallIds : Call(id).method = "Fatal" /\ Call(id).outcome = "exited"

C8_Witness ==
  /\ logger # Nil /\ R.kind = "Std" /\ R.enabled /\ R.logger = "user"
  /\ config.Level = LogLevelOff
  /\ exited /\ exitCode = 1
  /\ Len(hist[1]) = 1
  /\ hist[1][1].method = "Fatal" /\ hist[1][1].outcome = "exited"
  /\ out["buffer"] = <<[prefix |-> "", tag |-> "[FATAL] ", msg |-> <<1, 1>>]>>

\* C9: on the three built-in loggers the process is ended only by a Fatal
\* call on an enabled logger that (for a DefaultLogger) passes the level
\* filter; Debug, Info, Warn, Error and LogMode never end it, no operation of
\* a NoOpLogger ends it or writes, and every call that does not end the
\* process returns normally.
C9_OnlyFatalTerminates ==
  (logger # Nil /\ R.kind \in {"NoOp", "Default", "Std"}) =>
    /\ \A id \in CallIds :
         LET e == Call(id) IN
           /\ e.outcome # "panicked"
           /\ e.outcome = "exited" =>
                /\ e.method = "Fatal"
                /\ R.kind # "NoOp"
                /\ R.enabled
                /\ R.kind = "Default" => LogLevelFatal >= R.level
           /\ (e.method # "Fatal" /\ pc[id[1]] = "idle") => e.outcome = "returned"
           /\ R.kind = "NoOp" => e.outcome = "returned" /\ ~e.wrote
    /\ exited => \E id \in CallIds : Call(id).outcome = "exited"
    /\ exited => exitCode = 1
    /\ R.kind = "NoOp" => ~exited /\ NothingWritten
    /\ \A g \in callers : pc[g] # "panicked"

C9_Witness ==
  /\ logger # Nil /\ R.kind = "NoOp" /\ config.Enable /\ config.Logger = ExtId
  /\ ~exited
  /\ Len(hist[1]) = 3
  /\ hist[1][1].method = "Fatal" /\ hist[1][1].outcome = "returned"
  /\ hist[1][2].method = "Error" /\ hist[1][2].outcome = "returned"
  /\ hist[1][3].method = "Fatal" /\ hist[1][3].outcome = "returned"

\* What the spec says LogMode() reports: Off for a NoOpLogger and for any
\* disabled logger, the configured level for an enabled DefaultLogger, Debug
\* for an enabled StdLogger.
ClaimedLogMode ==
  IF R.kind = "NoOp" \/ ~R.enabled THEN LogLevelOff
  ELSE IF R.kind = "Default" THEN R.level
  ELSE LogLevelDebug

\* C10: LogMode() reports exactly what a built-in logger emits: a call at
\* severity S writes a line iff S >= LogMode(); its value is the one the spec
\* names for the variant, and it is the same before and after any emits.
C10_LogModeExact ==
  (logger # Nil /\ R.kind \in {"NoOp", "Default", "Std"}) =>
    /\ \A id \in CallIds :
         LET e == Call(id) IN
           /\ e.method = "LogMode" => e.ret = ClaimedLogMode
           /\ (IsEmit(e) /\ Finished(e)) =>
                (e.wrote <=> Severity(e.method) >= ClaimedLogMode)
    /\ \A a \in CallIds, b \in CallIds :
         (Call(a).method = "LogMode" /\ Call(b).method = "LogMode") =>
           Call(a).ret = Call(b).ret

C10_Witness ==
  /\ logger # Nil /\ R.kind = "Default" /\ R.level = LogLevelError
  /\ Len(hist[1]) = 3
  /\ hist[1][1].method = "LogMode" /\ hist[1][1].ret = LogLevelError
  /\ hist[1][2].method = "Error" /\ hist[1][2].wrote
  /\ hist[1][2].outcome = "returned"
  /\ hist[1][3].method = "LogMode" /\ hist[1][3].ret = LogLevelError

====
